---- MODULE Spec2Model ----
(***************************************************************************)
(* Model of frontend/script.js: the page's upload flow (handleUpload), its *)
(* query flow (handleQuery) and the result renderer (displayResults).      *)
(*                                                                         *)
(* The page is single-threaded: a click handler runs up to its first       *)
(* await, and the continuation after an await runs when the awaited        *)
(* promise settles.  Every action below is one such uninterrupted run.     *)
(* Each handler has two awaits: fetch(...) and response.json().            *)
(***************************************************************************)
EXTENDS Integers, Sequences, FiniteSets, Bags, TLC

(***************************************************************************)
(* Bounds of the model.                                                    *)
(***************************************************************************)
MaxUploads == 2   \* invocations of handleUpload
MaxQueries == 2   \* invocations of handleQuery
MaxTime == 1      \* Date.now() ranges over 0..MaxTime

(***************************************************************************)
(* JavaScript values.  A value is a tagged record; JS strings that the     *)
(* code inspects character by character carry a sequence of characters     *)
(* (field chars), all other strings carry a TLA+ string (field s).         *)
(***************************************************************************)
Undefined == [t |-> "undefined"]
Null == [t |-> "null"]
Str(s) == [t |-> "string", s |-> s]
Num(n) == [t |-> "number", n |-> n]
Chars(cs) == [t |-> "string", chars |-> cs]
Arr(items) == [t |-> "array", items |-> items]

\* ToBoolean: undefined, null, the empty string and 0 are falsy.
Truthy(v) ==
    CASE v.t = "undefined" -> FALSE
      [] v.t = "null" -> FALSE
      [] v.t = "string" -> (v # Str("") /\ v # Chars(<<>>))
      [] v.t = "number" -> v.n # 0
      [] OTHER -> TRUE

\* a || b
JsOr(a, b) == IF Truthy(a) THEN a ELSE b

\* ToString of a value with a TLA+ string payload, as `${v}` and
\* new Error(v) compute it.
ToStr(v) ==
    CASE v.t = "undefined" -> "undefined"
      [] v.t = "null" -> "null"
      [] v.t = "number" -> ToString(v.n)
      [] OTHER -> v.s

\* The DOM's conversion on assignment to textContent (a nullable DOMString):
\* null and undefined become the empty string.
ToDOMString(v) == IF v.t = "string" THEN v.s ELSE ""

(***************************************************************************)
(* String.prototype.trim, toLowerCase and includes on character sequences. *)
(***************************************************************************)
WhiteSpace == {" ", "\t", "\n"}

Trim(cs) ==
    LET keep == {i \in 1..Len(cs) : cs[i] \notin WhiteSpace}
    IN  IF keep = {} THEN <<>>
        ELSE LET first == CHOOSE i \in keep : \A j \in keep : i <= j
                 last == CHOOSE i \in keep : \A j \in keep : j <= i
             IN  SubSeq(cs, first, last)

UpperCase == <<"A","B","C","D","E","F","G","H","I","J","K","L","M",
               "N","O","P","Q","R","S","T","U","V","W","X","Y","Z">>
LowerCase == <<"a","b","c","d","e","f","g","h","i","j","k","l","m",
               "n","o","p","q","r","s","t","u","v","w","x","y","z">>

ToLowerChar(c) ==
    IF \E k \in 1..Len(UpperCase) : UpperCase[k] = c
    THEN LowerCase[CHOOSE k \in 1..Len(UpperCase) : UpperCase[k] = c]
    ELSE c

ToLowerCase(cs) == [i \in 1..Len(cs) |-> ToLowerChar(cs[i])]

Includes(cs, sub) ==
    \E i \in 0..(Len(cs) - Len(sub)) : SubSeq(cs, i + 1, i + Len(sub)) = sub

APPROVED == <<"a","p","p","r","o","v","e","d">>
COVERED == <<"c","o","v","e","r","e","d">>
REJECTED == <<"r","e","j","e","c","t","e","d">>
NOT == <<"n","o","t">>

(***************************************************************************)
(* JSON bodies.  A parsed body is null or an object; an absent field reads *)
(* as undefined.  Malformed stands for a body response.json() rejects.     *)
(***************************************************************************)
Malformed == [t |-> "malformed"]

UploadBody(message, detail) ==
    [t |-> "object", message |-> message, detail |-> detail]

QueryBody(decision, justification, conditions, referenced_clauses, detail) ==
    [t |-> "object", decision |-> decision, justification |-> justification,
     conditions |-> conditions, referenced_clauses |-> referenced_clauses,
     detail |-> detail]

Clause(clause_number, document_name, text) ==
    [t |-> "object", clause_number |-> clause_number,
     document_name |-> document_name, text |-> text]

(***************************************************************************)
(* Completions of a block of code: it either completes normally or throws  *)
(* an Error with a message.  The messages of the errors the browser itself *)
(* raises are browser-defined; one representative each.                    *)
(***************************************************************************)
Normal == [threw |-> FALSE]
Throw(message) == [threw |-> TRUE, message |-> message]

FetchFailed == "Failed to fetch"                   \* TypeError of fetch
JsonSyntaxError == "Unexpected end of JSON input"  \* SyntaxError of json()
NullDeref == "Cannot read properties of null"      \* TypeError
UndefinedDeref == "Cannot read properties of undefined" \* TypeError

(***************************************************************************)
(* displayResults.  The page's markup is a sequence of elements, in        *)
(* document order; no escaping is applied to interpolated text.            *)
(***************************************************************************)
\* Mutant: the keywords are looked up without lowering the text.
DecisionClassCaseSensitive(decision) ==
    IF Includes(decision, APPROVED) \/ Includes(decision, COVERED)
    THEN "Approved"
    ELSE IF Includes(decision, REJECTED) \/ Includes(decision, NOT)
         THEN "Rejected"
         ELSE "Information"

DecisionClass(decision) ==
    LET lower == ToLowerCase(decision)
    IN  IF Includes(lower, APPROVED) \/ Includes(lower, COVERED)
        THEN "Approved"
        ELSE IF Includes(lower, REJECTED) \/ Includes(lower, NOT)
             THEN "Rejected"
             ELSE "Information"

DecisionHtml(data) ==
    << [tag |-> "div", class |-> <<"decision", DecisionClass(data.decision.chars)>>,
        chars |-> data.decision.chars],
       [tag |-> "h3", text |-> "Justification"],
       [tag |-> "p", text |-> ToStr(data.justification)] >>

ConditionsHtml(data) ==
    IF Truthy(data.conditions)
    THEN << [tag |-> "h3", text |-> "Conditions"],
            [tag |-> "p", text |-> ToStr(data.conditions)] >>
    ELSE << >>

\* Mutant: the clause number is interpolated without the 'N/A' fallback.
ClauseHtmlNoPlaceholder(clause) ==
    [tag |-> "div", class |-> <<"referenced-clause">>,
     number |-> ToStr(clause.clause_number),
     document |-> ToStr(clause.document_name),
     quote |-> ToStr(clause.text)]

ClauseHtml(clause) ==
    [tag |-> "div", class |-> <<"referenced-clause">>,
     number |-> ToStr(JsOr(clause.clause_number, Str("N/A"))),
     document |-> ToStr(clause.document_name),
     quote |-> ToStr(clause.text)]

\* Mutant: the section is rendered for an empty list too.
ClausesHtmlWhenPresent(data) ==
    IF Truthy(data.referenced_clauses)
    THEN << [tag |-> "h3", text |-> "Referenced Clauses"] >>
         \o [i \in 1..Len(data.referenced_clauses.items) |->
                ClauseHtml(data.referenced_clauses.items[i])]
    ELSE << >>

ClausesHtml(data) ==
    IF Truthy(data.referenced_clauses) /\ Len(data.referenced_clauses.items) > 0
    THEN << [tag |-> "h3", text |-> "Referenced Clauses"] >>
         \o [i \in 1..Len(data.referenced_clauses.items) |->
                ClauseHtml(data.referenced_clauses.items[i])]
    ELSE << >>

\* The completion of displayResults(data); html is what it assigns to
\* resultsContent.innerHTML (the assignment is its last statement, so a
\* call that throws assigns nothing).
displayResults(data) ==
    IF data = Null THEN Throw(NullDeref)
    ELSE IF data.decision = Undefined THEN Throw(UndefinedDeref)
    ELSE IF /\ Truthy(data.referenced_clauses)
            /\ \E i \in 1..Len(data.referenced_clauses.items) :
                   data.referenced_clauses.items[i] = Null
         THEN Throw(NullDeref)
    ELSE [threw |-> FALSE,
          html |-> DecisionHtml(data) \o ConditionsHtml(data) \o ClausesHtml(data)]

ErrorHtml(message) ==
    << [tag |-> "p", style |-> "color:red;", text |-> "Error: " \o message] >>

(***************************************************************************)
(* What the environment supplies: the file picker's selection, the text of *)
(* the question input, and the server's responses.                         *)
(***************************************************************************)
NoFile == Undefined                     \* fileInput.files[0] of an empty picker
Files == {NoFile, [t |-> "file", name |-> "policy.pdf"]}

QuestionValues ==
    { << >>, <<" ">>, <<" ","w","h","y","?","\n">> }

UploadBodies ==
    { UploadBody(Str("Ready"), Undefined),
      UploadBody(Str(""), Undefined),
      UploadBody(Undefined, Str("bad file")),
      UploadBody(Undefined, Str("")),
      UploadBody(Undefined, Undefined),
      Malformed }

ApprovedForCoverage ==
    <<"A","p","p","r","o","v","e","d"," ","f","o","r"," ",
      "c","o","v","e","r","a","g","e">>
NotApproved == <<"N","o","t"," ","a","p","p","r","o","v","e","d">>

TwoClauses ==
    << Clause(Str("4.2"), Str("policy.pdf"), Str("first")),
       Clause(Undefined, Str("rider.pdf"), Str("second")) >>

QueryBodies ==
    { QueryBody(Chars(ApprovedForCoverage), Str("in network"), Undefined,
                Arr(<< >>), Undefined),
      QueryBody(Chars(NotApproved), Str("excluded"), Str("none"),
                Arr(TwoClauses), Undefined),
      QueryBody(Undefined, Undefined, Undefined, Undefined, Str("no session")),
      QueryBody(Undefined, Undefined, Undefined, Undefined, Undefined),
      Malformed }

(***************************************************************************)
(* Responses for the renderer: a decision text for every combination of   *)
(* the four keywords (in mixed case), with and without conditions, and     *)
(* clause lists that are absent, empty or hold one to three clauses.       *)
(***************************************************************************)
Keywords == {"approved", "covered", "rejected", "not"}

DecisionText(present) ==
    <<"C","l","a","i","m",":">>
    \o (IF "not" \in present THEN <<" ","N","o","t">> ELSE << >>)
    \o (IF "approved" \in present
        THEN <<" ","A","P","P","R","O","V","E","D">> ELSE << >>)
    \o (IF "covered" \in present
        THEN <<" ","C","o","v","e","r","e","d">> ELSE << >>)
    \o (IF "rejected" \in present
        THEN <<" ","r","e","j","e","c","t","e","D">> ELSE << >>)

ClauseA == Clause(Str("4.2"), Str("policy.pdf"), Str("first"))
ClauseB == Clause(Undefined, Str("rider.pdf"), Str("second"))
ClauseC == Clause(Num(0), Str("annex.pdf"), Str("third"))

ClauseLists ==
    { Undefined, Null, Arr(<< >>), Arr(<<ClauseA>>), Arr(<<ClauseB, ClauseA>>),
      Arr(<<ClauseA, ClauseB, ClauseC>>) }

RenderBodies ==
    { QueryBody(Chars(DecisionText(present)), Str("because"), conditions,
                Arr(<< >>), Undefined) :
         present \in SUBSET Keywords,
         conditions \in {Undefined, Str("if paid")} }
    \cup { QueryBody(Chars(DecisionText({"covered"})), Str("because"), conditions,
                     clauses, Undefined) :
             conditions \in {Undefined, Str("if paid")},
             clauses \in ClauseLists }
    \cup { QueryBody(Undefined, Str("because"), Undefined, Undefined, Undefined) }

(***************************************************************************)
(* State.                                                                  *)
(***************************************************************************)
VARIABLES
    now,                \* the last value Date.now() returned
    sessionId,          \* let sessionId
    uploadStatus,       \* #upload-status: textContent and style.color
    queryCardDisplay,   \* #query-card style.display
    resultsCardDisplay, \* #results-card style.display
    loaderDisplay,      \* #loader style.display
    resultsContent,     \* #results-content innerHTML
    activeElement,      \* the focused element
    uploadCalls,        \* the invocations of handleUpload, in order
    queryCalls,         \* the invocations of handleQuery, in order
    requests,           \* the requests fetch has issued (a bag)
    alerts,             \* the messages alert() has shown, in order
    unhandled,          \* messages of the errors that escaped a handler
    event,              \* the click or settlement handled last
    lastSettled         \* the settlement that completed a query last

vars == << now, sessionId, uploadStatus, queryCardDisplay, resultsCardDisplay,
           loaderDisplay, resultsContent, activeElement, uploadCalls,
           queryCalls, requests, alerts, unhandled, event, lastSettled >>

dom == << uploadStatus, queryCardDisplay, resultsCardDisplay, loaderDisplay,
          resultsContent, activeElement >>

\* An invocation: pc is "aborted" (a precondition failed), "fetch" (awaiting
\* fetch), "json" (awaiting response.json()) or "done"; ok is response.ok;
\* threw tells whether its try block threw.
Call(pc, ok, threw) == [pc |-> pc, ok |-> ok, threw |-> threw]

Init ==
    /\ now = 0
    /\ sessionId = Null
    /\ uploadStatus = [textContent |-> "", color |-> ""]
    /\ queryCardDisplay = "none"
    /\ resultsCardDisplay = "none"
    /\ loaderDisplay = "none"
    /\ resultsContent = << >>
    /\ activeElement = "body"
    /\ uploadCalls = << >>
    /\ queryCalls = << >>
    /\ requests = EmptyBag
    /\ alerts = << >>
    /\ unhandled = << >>
    /\ event = [type |-> "DOMContentLoaded"]
    /\ lastSettled = [type |-> "none"]

(***************************************************************************)
(* handleUpload.                                                           *)
(***************************************************************************)
\* Mutant: the file check never fires.
FileMissingNever(file) == FALSE

\* if (!file)
FileMissing(file) == ~Truthy(file)

\* sessionId = `session_${Date.now()}`
NewSessionId(t) == Str("session_" \o ToString(t))

UploadRequest(caller, file, session) ==
    [url |-> "/upload_document/", method |-> "POST", caller |-> caller,
     body |-> [file |-> file, session_id |-> session]]

\* The click handler up to its first await.
HandleUpload(file, t) ==
    /\ Len(uploadCalls) < MaxUploads
    /\ t \in now..MaxTime
    /\ LET i == Len(uploadCalls) + 1 IN
       /\ event' = [type |-> "click", target |-> "upload-button", call |-> i,
                    file |-> file]
       /\ IF FileMissing(file)
          THEN /\ uploadStatus' = [textContent |-> "Please select a file first.",
                                   color |-> "red"]
               /\ uploadCalls' = Append(uploadCalls, Call("aborted", FALSE, FALSE))
               /\ UNCHANGED << now, sessionId, requests >>
          ELSE /\ now' = t
               /\ sessionId' = NewSessionId(t)
               /\ uploadStatus' = [textContent |-> "Uploading and processing...",
                                   color |-> "orange"]
               /\ requests' = requests (+)
                      SetToBag({UploadRequest(<<"handleUpload", i>>, file, sessionId')})
               /\ uploadCalls' = Append(uploadCalls, Call("fetch", FALSE, FALSE))
    /\ UNCHANGED << queryCardDisplay, resultsCardDisplay, loaderDisplay,
                    resultsContent, activeElement, queryCalls, alerts, unhandled,
                    lastSettled >>

\* Mutant: the server's detail is ignored.
UploadNotOkGeneric(errorData) == Throw("Upload failed")

\* if (!response.ok) { ...; throw new Error(errorData.detail || 'Upload failed') }
UploadNotOk(errorData) ==
    IF errorData = Null THEN Throw(NullDeref)
    ELSE Throw(ToStr(JsOr(errorData.detail, Str("Upload failed"))))

\* Mutant: the status is read from the wrong field.
UploadSuccessStatusDetail(data) ==
    [textContent |-> ToDOMString(data.detail), color |-> "green"]

\* uploadStatus.textContent = data.message; uploadStatus.style.color = 'green'
UploadSuccessStatus(data) ==
    [textContent |-> ToDOMString(data.message), color |-> "green"]

\* The statements of the try block after a response arrived with the
\* given ok flag and body; on normal completion status is the new status.
UploadTry(ok, body) ==
    IF body = Malformed THEN Throw(JsonSyntaxError)
    ELSE IF ~ok THEN UploadNotOk(body)
    ELSE IF body = Null THEN Throw(NullDeref)
    ELSE [threw |-> FALSE, status |-> UploadSuccessStatus(body)]

\* catch (error): the clause catches whatever the try block throws.
UploadCaught(c) == c.threw

\* uploadStatus.textContent = `Error: ${error.message}`; color red
UploadCatch(message) ==
    [textContent |-> "Error: " \o message, color |-> "red"]

\* Mutant: the catch block forgets the session of the failed upload.
UploadFinishResetsSession(i, c) ==
    /\ uploadCalls' = [uploadCalls EXCEPT ![i].pc = "done", ![i].threw = c.threw]
    /\ IF ~c.threw
       THEN /\ uploadStatus' = c.status
            /\ queryCardDisplay' = "block"
            /\ activeElement' = "question-input"
            /\ UNCHANGED << sessionId, unhandled >>
       ELSE IF UploadCaught(c)
       THEN /\ uploadStatus' = UploadCatch(c.message)
            /\ sessionId' = Null
            /\ UNCHANGED << queryCardDisplay, activeElement, unhandled >>
       ELSE /\ unhandled' = Append(unhandled, c.message)
            /\ UNCHANGED << sessionId, uploadStatus, queryCardDisplay,
                            activeElement >>
    /\ UNCHANGED << now, resultsCardDisplay, loaderDisplay,
                    resultsContent, queryCalls, requests, alerts, lastSettled >>

\* Mutant: the catch block shows the query section as well.
UploadFinishShowsCard(i, c) ==
    /\ uploadCalls' = [uploadCalls EXCEPT ![i].pc = "done", ![i].threw = c.threw]
    /\ IF ~c.threw
       THEN /\ uploadStatus' = c.status
            /\ queryCardDisplay' = "block"
            /\ activeElement' = "question-input"
            /\ UNCHANGED unhandled
       ELSE IF UploadCaught(c)
       THEN /\ uploadStatus' = UploadCatch(c.message)
            /\ queryCardDisplay' = "block"
            /\ UNCHANGED << activeElement, unhandled >>
       ELSE /\ unhandled' = Append(unhandled, c.message)
            /\ UNCHANGED << uploadStatus, queryCardDisplay, activeElement >>
    /\ UNCHANGED << now, sessionId, resultsCardDisplay, loaderDisplay,
                    resultsContent, queryCalls, requests, alerts, lastSettled >>

\* The rest of handleUpload once its try block completed with c.
UploadFinish(i, c) ==
    /\ uploadCalls' = [uploadCalls EXCEPT ![i].pc = "done", ![i].threw = c.threw]
    /\ IF ~c.threw
       THEN /\ uploadStatus' = c.status
            /\ queryCardDisplay' = "block"
            /\ activeElement' = "question-input"
            /\ UNCHANGED unhandled
       ELSE IF UploadCaught(c)
       THEN /\ uploadStatus' = UploadCatch(c.message)
            /\ UNCHANGED << queryCardDisplay, activeElement, unhandled >>
       ELSE /\ unhandled' = Append(unhandled, c.message)
            /\ UNCHANGED << uploadStatus, queryCardDisplay, activeElement >>
    /\ UNCHANGED << now, sessionId, resultsCardDisplay, loaderDisplay,
                    resultsContent, queryCalls, requests, alerts, lastSettled >>

\* The fetch of upload i settles: it rejects, or resolves with a response.
UploadFetchSettles(i, rejected, ok) ==
    /\ i \in 1..Len(uploadCalls)
    /\ uploadCalls[i].pc = "fetch"
    /\ rejected => ~ok
    /\ event' = [type |-> "fetch-settled", handler |-> "handleUpload", call |-> i,
                 rejected |-> rejected, ok |-> ok]
    /\ IF rejected
       THEN UploadFinish(i, Throw(FetchFailed))
       ELSE /\ uploadCalls' = [uploadCalls EXCEPT ![i].pc = "json", ![i].ok = ok]
            /\ UNCHANGED << now, sessionId, dom, queryCalls, requests, alerts,
                            unhandled, lastSettled >>

\* response.json() of upload i settles with a parsed body or a rejection.
UploadJsonSettles(i, body) ==
    /\ i \in 1..Len(uploadCalls)
    /\ uploadCalls[i].pc = "json"
    /\ event' = [type |-> "json-settled", handler |-> "handleUpload", call |-> i,
                 rejected |-> FALSE, ok |-> uploadCalls[i].ok, body |-> body]
    /\ UploadFinish(i, UploadTry(uploadCalls[i].ok, body))

(***************************************************************************)
(* handleQuery.                                                            *)
(***************************************************************************)
\* if (!question)
QuestionMissing(question) == ~Truthy(Chars(question))

\* Mutant: the session check never fires.
SessionMissingNever(session) == FALSE

\* if (!sessionId)
SessionMissing(session) == ~Truthy(session)

QueryRequest(caller, session, question) ==
    [url |-> "/query/", method |-> "POST", caller |-> caller,
     body |-> [session_id |-> session, question |-> question]]

\* Mutant: the results card is prepared before the preconditions are checked.
HandleQueryEager(value) ==
    /\ Len(queryCalls) < MaxQueries
    /\ LET i == Len(queryCalls) + 1
           question == Trim(value)
       IN
       /\ event' = [type |-> "click", target |-> "query-button", call |-> i,
                    value |-> value]
       /\ resultsCardDisplay' = "block"
       /\ loaderDisplay' = "block"
       /\ resultsContent' = << >>
       /\ IF QuestionMissing(question)
          THEN /\ alerts' = Append(alerts, "Please enter a question.")
               /\ queryCalls' = Append(queryCalls, Call("aborted", FALSE, FALSE))
               /\ UNCHANGED requests
          ELSE IF SessionMissing(sessionId)
          THEN /\ alerts' = Append(alerts, "Please upload a document first.")
               /\ queryCalls' = Append(queryCalls, Call("aborted", FALSE, FALSE))
               /\ UNCHANGED requests
          ELSE /\ requests' = requests (+)
                      SetToBag({QueryRequest(<<"handleQuery", i>>, sessionId, question)})
               /\ queryCalls' = Append(queryCalls, Call("fetch", FALSE, FALSE))
               /\ UNCHANGED alerts
    /\ UNCHANGED << now, sessionId, uploadStatus, queryCardDisplay, activeElement,
                    uploadCalls, unhandled, lastSettled >>

\* The click handler of the query button, up to its await of fetch.
HandleQuery(value) ==
    /\ Len(queryCalls) < MaxQueries
    /\ LET i == Len(queryCalls) + 1
           question == Trim(value)
       IN
       /\ event' = [type |-> "click", target |-> "query-button", call |-> i,
                    value |-> value]
       /\ IF QuestionMissing(question)
          THEN /\ alerts' = Append(alerts, "Please enter a question.")
               /\ queryCalls' = Append(queryCalls, Call("aborted", FALSE, FALSE))
               /\ UNCHANGED << resultsCardDisplay, loaderDisplay, resultsContent,
                               requests >>
          ELSE IF SessionMissing(sessionId)
          THEN /\ alerts' = Append(alerts, "Please upload a document first.")
               /\ queryCalls' = Append(queryCalls, Call("aborted", FALSE, FALSE))
               /\ UNCHANGED << resultsCardDisplay, loaderDisplay, resultsContent,
                               requests >>
          ELSE /\ resultsCardDisplay' = "block"
               /\ loaderDisplay' = "block"
               /\ resultsContent' = << >>
               /\ requests' = requests (+)
                      SetToBag({QueryRequest(<<"handleQuery", i>>, sessionId, question)})
               /\ queryCalls' = Append(queryCalls, Call("fetch", FALSE, FALSE))
               /\ UNCHANGED alerts
    /\ UNCHANGED << now, sessionId, uploadStatus, queryCardDisplay, activeElement,
                    uploadCalls, unhandled, lastSettled >>

\* if (!response.ok) { ...; throw new Error(errorData.detail || 'Query failed') }
QueryNotOk(errorData) ==
    IF errorData = Null THEN Throw(NullDeref)
    ELSE Throw(ToStr(JsOr(errorData.detail, Str("Query failed"))))

\* The statements of the try block after a response arrived with the
\* given ok flag and body.
QueryTry(ok, body) ==
    IF body = Malformed THEN Throw(JsonSyntaxError)
    ELSE IF ~ok THEN QueryNotOk(body)
    ELSE displayResults(body)

\* Mutant: the errors of rendering are thrown outside the try block.
QueryCaughtHttpOnly(c) == c.threw /\ c.message \notin {NullDeref, UndefinedDeref}

\* catch (error): the clause catches whatever the try block throws.
QueryCaught(c) == c.threw

\* Mutant: the error is appended (+=) instead of assigned.
QueryCatchAppend(content, message) == content \o ErrorHtml(message)

\* resultsContent.innerHTML = `<p style="color:red;">Error: ${error.message}</p>`
\* (content is the innerHTML before the assignment)
QueryCatch(content, message) == ErrorHtml(message)

\* Mutant: the loader is hidden on the success path only.
QueryFinallyOnSuccess(display, c) == IF c.threw THEN display ELSE "none"

\* Mutant: the loader is hidden by the catch block, not by a finally block.
QueryFinallyOnFailure(display, c) == IF c.threw THEN "none" ELSE display

\* finally { loader.style.display = 'none'; }
\* (display is the loader's display before the assignment)
QueryFinally(display, c) == "none"

\* Mutant: the catch block also resets the session.
QueryFinishResetsSession(i, c) ==
    /\ queryCalls' = [queryCalls EXCEPT ![i].pc = "done", ![i].threw = c.threw]
    /\ resultsContent' = IF c.threw THEN QueryCatch(resultsContent, c.message)
                         ELSE c.html
    /\ sessionId' = IF c.threw THEN Null ELSE sessionId
    /\ loaderDisplay' = QueryFinally(loaderDisplay, c)
    /\ lastSettled' = event'
    /\ UNCHANGED << now, uploadStatus, queryCardDisplay, resultsCardDisplay,
                    activeElement, uploadCalls, requests, alerts, unhandled >>

\* The rest of handleQuery once its try block completed with c.
QueryFinish(i, c) ==
    /\ queryCalls' = [queryCalls EXCEPT ![i].pc = "done", ![i].threw = c.threw]
    /\ IF ~c.threw
       THEN /\ resultsContent' = c.html
            /\ UNCHANGED unhandled
       ELSE IF QueryCaught(c)
       THEN /\ resultsContent' = QueryCatch(resultsContent, c.message)
            /\ UNCHANGED unhandled
       ELSE /\ unhandled' = Append(unhandled, c.message)
            /\ UNCHANGED resultsContent
    /\ loaderDisplay' = QueryFinally(loaderDisplay, c)
    /\ lastSettled' = event'
    /\ UNCHANGED << now, sessionId, uploadStatus, queryCardDisplay,
                    resultsCardDisplay, activeElement, uploadCalls, requests,
                    alerts >>

\* Mutant: a rejected fetch is retried once before the failure is handled.
QueryFetchSettlesRetry(i, rejected, ok) ==
    /\ i \in 1..Len(queryCalls)
    /\ queryCalls[i].pc = "fetch"
    /\ rejected => ~ok
    /\ event' = [type |-> "fetch-settled", handler |-> "handleQuery", call |-> i,
                 rejected |-> rejected, ok |-> ok]
    /\ LET mine == {r \in BagToSet(requests) : r.caller = <<"handleQuery", i>>} IN
       IF rejected /\ \A r \in mine : requests[r] = 1
       THEN /\ requests' = requests (+) SetToBag(mine)
            /\ UNCHANGED << now, sessionId, dom, uploadCalls, queryCalls, alerts,
                            unhandled, lastSettled >>
       ELSE IF rejected
       THEN QueryFinish(i, Throw(FetchFailed))
       ELSE /\ queryCalls' = [queryCalls EXCEPT ![i].pc = "json", ![i].ok = ok]
            /\ UNCHANGED << now, sessionId, dom, uploadCalls, requests, alerts,
                            unhandled, lastSettled >>

\* The fetch of query i settles: it rejects, or resolves with a response.
QueryFetchSettles(i, rejected, ok) ==
    /\ i \in 1..Len(queryCalls)
    /\ queryCalls[i].pc = "fetch"
    /\ rejected => ~ok
    /\ event' = [type |-> "fetch-settled", handler |-> "handleQuery", call |-> i,
                 rejected |-> rejected, ok |-> ok]
    /\ IF rejected
       THEN QueryFinish(i, Throw(FetchFailed))
       ELSE /\ queryCalls' = [queryCalls EXCEPT ![i].pc = "json", ![i].ok = ok]
            /\ UNCHANGED << now, sessionId, dom, uploadCalls, requests, alerts,
                            unhandled, lastSettled >>

\* response.json() of query i settles with a parsed body or a rejection.
QueryJsonSettles(i, body) ==
    /\ i \in 1..Len(queryCalls)
    /\ queryCalls[i].pc = "json"
    /\ event' = [type |-> "json-settled", handler |-> "handleQuery", call |-> i,
                 rejected |-> FALSE, ok |-> queryCalls[i].ok, body |-> body]
    /\ QueryFinish(i, QueryTry(queryCalls[i].ok, body))

(***************************************************************************)
(* The page.                                                               *)
(***************************************************************************)
Next ==
    \/ \E file \in Files, t \in 0..MaxTime : HandleUpload(file, t)
    \/ \E i \in 1..MaxUploads, rejected \in BOOLEAN, ok \in BOOLEAN :
          UploadFetchSettles(i, rejected, ok)
    \/ \E i \in 1..MaxUploads, body \in UploadBodies : UploadJsonSettles(i, body)
    \/ \E value \in QuestionValues : HandleQuery(value)
    \/ \E i \in 1..MaxQueries, rejected \in BOOLEAN, ok \in BOOLEAN :
          QueryFetchSettles(i, rejected, ok)
    \/ \E i \in 1..MaxQueries, body \in QueryBodies : QueryJsonSettles(i, body)

Spec == Init /\ [][Next]_vars

(***************************************************************************)
(* The page with the renderer's inputs: every query gets a success         *)
(* response whose body is drawn from RenderBodies.                         *)
(***************************************************************************)
NextRender ==
    \/ \E file \in Files, t \in 0..MaxTime : HandleUpload(file, t)
    \/ \E value \in QuestionValues : HandleQuery(value)
    \/ \E i \in 1..MaxQueries : QueryFetchSettles(i, FALSE, TRUE)
    \/ \E i \in 1..MaxQueries, body \in RenderBodies : QueryJsonSettles(i, body)

SpecRender == Init /\ [][NextRender]_vars

(***************************************************************************)
(* Vocabulary of the properties.                                           *)
(***************************************************************************)
RequestsOf(caller) == {r \in BagToSet(requests) : r.caller = caller}

Outstanding(calls) == {i \in 1..Len(calls) : calls[i].pc \in {"fetch", "json"}}
Done(calls) == {i \in 1..Len(calls) : calls[i].pc = "done"}
Aborted(calls) == {i \in 1..Len(calls) : calls[i].pc = "aborted"}

UploadClicked == event.type = "click" /\ event.target = "upload-button"
QueryClicked == event.type = "click" /\ event.target = "query-button"

\* The step just taken completed an invocation of handleQuery.
QuerySettled ==
    /\ event.type \in {"fetch-settled", "json-settled"}
    /\ event.handler = "handleQuery"
    /\ queryCalls[event.call].pc = "done"

\* The step just taken delivered a parsed JSON object to handleUpload.
UploadObjectDelivered ==
    /\ event.type = "json-settled"
    /\ event.handler = "handleUpload"
    /\ event.body.t = "object"

(***************************************************************************)
(* C1: handleQuery issues no request unless the trimmed question is        *)
(* non-empty and sessionId is non-null; an invocation that fails either    *)
(* check shows one alert and issues nothing.                               *)
(***************************************************************************)
C1_QueryPreconditions ==
    /\ \A r \in BagToSet(requests) :
          r.url = "/query/" =>
             /\ r.body.session_id # Null
             /\ Truthy(r.body.session_id)
             /\ Trim(r.body.question) # << >>
    /\ Len(alerts) = Cardinality(Aborted(queryCalls))
    /\ (QueryClicked /\ (Trim(event.value) = << >> \/ sessionId = Null)) =>
          /\ queryCalls[event.call].pc = "aborted"
          /\ RequestsOf(<<"handleQuery", event.call>>) = {}
          /\ alerts[Len(alerts)] =
                IF Trim(event.value) = << >> THEN "Please enter a question."
                ELSE "Please upload a document first."

C1_Witness ==
    /\ QueryClicked
    /\ sessionId = Null
    /\ Trim(event.value) # << >>
    /\ alerts = <<"Please enter a question.", "Please upload a document first.">>

(***************************************************************************)
(* C2: the session_id of a query request is that of an upload whose call   *)
(* had settled successfully before the query was issued.                   *)
(***************************************************************************)
C2_QuerySessionFromSuccessfulUpload ==
    (QueryClicked /\ queryCalls[event.call].pc = "fetch") =>
       \A r \in RequestsOf(<<"handleQuery", event.call>>) :
          \E j \in Done(uploadCalls) :
             /\ ~uploadCalls[j].threw
             /\ \E u \in RequestsOf(<<"handleUpload", j>>) :
                   u.body.session_id = r.body.session_id

(***************************************************************************)
(* C3: a decision text that contains "not" and "approved", as              *)
(* "Not approved" does, is rendered with the class Rejected.               *)
(***************************************************************************)
C3_NotApprovedIsRejected ==
    ( /\ QuerySettled
      /\ event.type = "json-settled"
      /\ event.ok
      /\ event.body.t = "object"
      /\ event.body.decision.t = "string"
      /\ Includes(ToLowerCase(event.body.decision.chars), NOT)
      /\ Includes(ToLowerCase(event.body.decision.chars), APPROVED)
      /\ ~queryCalls[event.call].threw ) =>
       resultsContent[1].class = <<"decision", "Rejected">>

(***************************************************************************)
(* C4: handleUpload with no file selected issues no request and sets the   *)
(* status text to 'Please select a file first.'.                           *)
(***************************************************************************)
C4_NoFileNoRequest ==
    /\ \A i \in Aborted(uploadCalls) : RequestsOf(<<"handleUpload", i>>) = {}
    /\ (UploadClicked /\ event.file = NoFile) =>
          /\ uploadCalls[event.call].pc = "aborted"
          /\ RequestsOf(<<"handleUpload", event.call>>) = {}
          /\ uploadStatus.textContent = "Please select a file first."

C4_Witness ==
    /\ UploadClicked
    /\ event.file = NoFile
    /\ uploadCalls[event.call].pc = "aborted"
    /\ Outstanding(uploadCalls) # {}

\* What the settlement e of a query leaves in the results area.
OutcomeOf(e) ==
    IF e.rejected THEN ErrorHtml(FetchFailed)
    ELSE LET c == QueryTry(e.ok, e.body)
         IN  IF c.threw THEN ErrorHtml(c.message) ELSE c.html

(***************************************************************************)
(* C5: once two or more queries have all settled, the results area holds   *)
(* the outcome of the one that settled last, in whatever order they were   *)
(* started.                                                                *)
(***************************************************************************)
C5_LastSettledWins ==
    (Outstanding(queryCalls) = {} /\ Cardinality(Done(queryCalls)) >= 2) =>
       resultsContent = OutcomeOf(lastSettled)

\* Query 1 was started first and settled last: the two overlapped.
C5_Witness ==
    /\ Outstanding(queryCalls) = {}
    /\ Done(queryCalls) = {1, 2}
    /\ lastSettled.call = 1
    /\ ~queryCalls[1].threw
    /\ queryCalls[2].threw
    /\ resultsContent = OutcomeOf(lastSettled)

(***************************************************************************)
(* C6: while the call of a query is outstanding the loader is shown and    *)
(* the results area is empty.                                              *)
(***************************************************************************)
C6_LoaderWhileOutstanding ==
    Outstanding(queryCalls) # {} =>
       (loaderDisplay = "block" /\ resultsContent = << >>)

(***************************************************************************)
(* C7: in the state right after a query settles the loader is hidden,      *)
(* whatever the outcome.                                                   *)
(***************************************************************************)
C7_LoaderHiddenOnSettle == QuerySettled => loaderDisplay = "none"

\* The response was a success whose rendering threw.
C7_Witness ==
    /\ QuerySettled
    /\ event.type = "json-settled"
    /\ event.ok
    /\ queryCalls[event.call].threw
    /\ loaderDisplay = "none"

\* The failures of a settlement e, and the message each one carries.
QueryFailure(e) ==
    \/ e.rejected
    \/ e.body = Malformed
    \/ ~e.ok
    \/ e.body = Null
    \/ e.body.decision = Undefined

ExpectedQueryError(e) ==
    IF e.rejected THEN FetchFailed
    ELSE IF e.body = Malformed THEN JsonSyntaxError
    ELSE IF e.body = Null THEN NullDeref
    ELSE IF e.ok THEN UndefinedDeref
    ELSE IF e.body.detail.t = "string" /\ e.body.detail.s # ""
         THEN e.body.detail.s
         ELSE "Query failed"

(***************************************************************************)
(* C8: every failure of a query after its preconditions passed is caught   *)
(* in handleQuery: nothing escapes, and the results area holds exactly     *)
(* the one error paragraph 'Error: <message>'.                             *)
(***************************************************************************)
C8_QueryFailuresCaught ==
    /\ unhandled = << >>
    /\ (QuerySettled /\ QueryFailure(event)) =>
          /\ queryCalls[event.call].threw
          /\ Len(resultsContent) = 1
          /\ resultsContent[1] =
                [tag |-> "p", style |-> "color:red;",
                 text |-> "Error: " \o ExpectedQueryError(event)]

\* A success body without a decision, after another query had rendered.
C8_Witness ==
    /\ QuerySettled
    /\ event.type = "json-settled"
    /\ event.ok
    /\ event.body.t = "object"
    /\ event.body.decision = Undefined
    /\ \E j \in Done(queryCalls) : j # event.call /\ ~queryCalls[j].threw
    /\ Len(resultsContent) = 1

(***************************************************************************)
(* C9: an upload that settles with a non-success status and a JSON body    *)
(* sets the status text to 'Error: ' followed by the body's detail, or to  *)
(* 'Error: Upload failed' when it has none, and leaves the visibility of   *)
(* the query section as it was.                                            *)
(***************************************************************************)
C9_DetailShownWhenPresent ==
    [][ (UploadObjectDelivered' /\ ~event'.ok) =>
          /\ uploadStatus'.textContent =
                IF event'.body.detail.t = "string"
                THEN "Error: " \o event'.body.detail.s
                ELSE "Error: Upload failed"
          /\ queryCardDisplay' = queryCardDisplay ]_vars

(***************************************************************************)
(* C9, amended: the detail is shown when it is a non-empty string; a       *)
(* detail that is absent or the empty string gives 'Error: Upload failed'. *)
(* The visibility of the query section is left as it was.                  *)
(***************************************************************************)
C9_DetailShownWhenNonEmpty ==
    [][ (UploadObjectDelivered' /\ ~event'.ok) =>
          /\ uploadStatus'.textContent =
                IF event'.body.detail.t = "string" /\ event'.body.detail.s # ""
                THEN "Error: " \o event'.body.detail.s
                ELSE "Error: Upload failed"
          /\ queryCardDisplay' = queryCardDisplay ]_vars

\* A failed upload after a successful one: the query section stays visible.
C9_Witness ==
    /\ UploadObjectDelivered
    /\ ~event.ok
    /\ event.body.detail = Str("bad file")
    /\ uploadStatus.textContent = "Error: bad file"
    /\ queryCardDisplay = "block"

(***************************************************************************)
(* C10: an upload that settles with a success response whose message is m  *)
(* sets the status text to m and makes the query section visible.          *)
(***************************************************************************)
C10_SuccessShowsMessage ==
    (UploadObjectDelivered /\ event.ok /\ event.body.message.t = "string") =>
       /\ uploadStatus.textContent = event.body.message.s
       /\ queryCardDisplay = "block"

C10_Witness ==
    /\ UploadObjectDelivered
    /\ event.ok
    /\ event.body.message = Str("Ready")
    /\ uploadStatus.textContent = "Ready"
    /\ queryCardDisplay = "block"

\* The step just taken was a step of handleQuery (displayResults included).
QueryStep ==
    \/ QueryClicked
    \/ /\ event.type \in {"fetch-settled", "json-settled"}
       /\ event.handler = "handleQuery"

(***************************************************************************)
(* C11: no step of handleQuery or displayResults changes sessionId; only   *)
(* the click handler of the upload button writes it.                       *)
(***************************************************************************)
C11_QueryNeverWritesSession ==
    [][ /\ QueryStep' => sessionId' = sessionId
        /\ sessionId' # sessionId => UploadClicked' ]_vars

\* A query failed after an upload: the session is still that upload's.
C11_Witness ==
    /\ QuerySettled
    /\ queryCalls[event.call].threw
    /\ sessionId # Null
    /\ \E r \in RequestsOf(<<"handleQuery", event.call>>) :
          r.body.session_id = sessionId

\* The step just taken rendered a success response with displayResults.
Rendered ==
    /\ QuerySettled
    /\ event.type = "json-settled"
    /\ event.ok
    /\ event.body.t = "object"
    /\ ~queryCalls[event.call].threw

\* The keywords a decision text of RenderBodies was built from.
KeywordsIn(chars) ==
    CHOOSE present \in SUBSET Keywords : DecisionText(present) = chars

Positive(present) == present \cap {"approved", "covered"} # {}
Negative(present) == present \cap {"rejected", "not"} # {}

\* The rule of the specification, on the keywords present.
ReferenceClass(present) ==
    IF Positive(present) THEN "Approved"
    ELSE IF Negative(present) THEN "Rejected"
    ELSE "Information"

\* The class displayResults gave the decision element.
RenderedClass == resultsContent[1].class[2]

(***************************************************************************)
(* C12: displayResults classifies a decision text, whatever its case, as   *)
(* Approved if it contains "approved" or "covered", else as Rejected if it *)
(* contains "rejected" or "not", else as Information; the class is always  *)
(* one of the three.                                                       *)
(***************************************************************************)
C12_ClassifierMatchesRule ==
    Rendered =>
       /\ resultsContent[1].tag = "div"
       /\ resultsContent[1].class[1] = "decision"
       /\ RenderedClass = ReferenceClass(KeywordsIn(event.body.decision.chars))
       /\ RenderedClass \in {"Approved", "Rejected", "Information"}

\* Only negative keywords, in mixed case.
C12_Witness ==
    /\ Rendered
    /\ KeywordsIn(event.body.decision.chars) = {"rejected", "not"}
    /\ RenderedClass = "Rejected"

(***************************************************************************)
(* C13: a decision text that holds both a positive and a negative keyword, *)
(* or none of the keywords, is classified as Information.                  *)
(***************************************************************************)
C13_TiesAreNeutral ==
    Rendered =>
       LET present == KeywordsIn(event.body.decision.chars)
       IN  ((Positive(present) /\ Negative(present)) \/ present = {}) =>
              RenderedClass = "Information"

IsClauseEntry(e) == e.tag = "div" /\ e.class = <<"referenced-clause">>
IsClausesHeading(e) == e.tag = "h3" /\ e.text = "Referenced Clauses"

\* The clause entries of the results area, in document order.
ClauseEntries == SelectSeq(resultsContent, IsClauseEntry)

\* The clause records of the response just rendered (n >= 1 of them).
RenderedClauses == event.body.referenced_clauses.items
HasClauses ==
    /\ event.body.referenced_clauses.t = "array"
    /\ Len(event.body.referenced_clauses.items) >= 1

(***************************************************************************)
(* C14: a response with n >= 1 referenced clauses is rendered as exactly n *)
(* clause entries in the order received; the i-th entry shows the i-th     *)
(* clause's number, or 'N/A' exactly when that clause has no clause        *)
(* number, its document name and its quoted text.                          *)
(***************************************************************************)
C14_ClauseEntriesNAWhenAbsent ==
    (Rendered /\ HasClauses) =>
       /\ Len(ClauseEntries) = Len(RenderedClauses)
       /\ \A i \in 1..Len(RenderedClauses) :
             LET clause == RenderedClauses[i]
                 absent == clause.clause_number \in {Undefined, Null}
             IN  /\ ClauseEntries[i].number =
                       IF absent THEN "N/A" ELSE ToStr(clause.clause_number)
                 /\ ClauseEntries[i].number = "N/A" <=> absent
                 /\ ClauseEntries[i].document = ToStr(clause.document_name)
                 /\ ClauseEntries[i].quote = ToStr(clause.text)

(***************************************************************************)
(* C14, amended: as above, but the entry shows 'N/A' exactly when the      *)
(* clause number is absent or falsy (undefined, null, the empty string or  *)
(* the number 0).                                                          *)
(***************************************************************************)
C14_ClauseEntriesNAWhenFalsy ==
    (Rendered /\ HasClauses) =>
       /\ Len(ClauseEntries) = Len(RenderedClauses)
       /\ \A i \in 1..Len(RenderedClauses) :
             LET clause == RenderedClauses[i]
                 falsy == ~Truthy(clause.clause_number)
             IN  /\ ClauseEntries[i].number =
                       IF falsy THEN "N/A" ELSE ToStr(clause.clause_number)
                 /\ ClauseEntries[i].number = "N/A" <=> falsy
                 /\ ClauseEntries[i].document = ToStr(clause.document_name)
                 /\ ClauseEntries[i].quote = ToStr(clause.text)

\* Three clauses: numbered, without a number, numbered 0.
C14_Witness ==
    /\ Rendered
    /\ HasClauses
    /\ RenderedClauses = <<ClauseA, ClauseB, ClauseC>>
    /\ Len(ClauseEntries) = 3
    /\ ClauseEntries[1].number = "4.2"
    /\ ClauseEntries[2].number = "N/A"
    /\ ClauseEntries[3].document = "annex.pdf"

(***************************************************************************)
(* C15: the rendered view holds a referenced-clauses section (its heading  *)
(* or any clause entry) if and only if the response's referenced_clauses   *)
(* is present and non-empty.                                               *)
(***************************************************************************)
C15_ClausesSectionIffNonEmpty ==
    Rendered =>
       ( (\E i \in 1..Len(resultsContent) :
              IsClausesHeading(resultsContent[i]) \/ IsClauseEntry(resultsContent[i]))
         <=> HasClauses )

\* A present but empty list next to a rendered conditions section.
C15_Witness ==
    /\ Rendered
    /\ event.body.referenced_clauses = Arr(<< >>)
    /\ Truthy(event.body.conditions)
    /\ Len(resultsContent) = 5

\* The number of requests invocation caller has issued so far.
RequestCount(caller) ==
    BagCardinality([r \in RequestsOf(caller) |-> requests[r]])

(***************************************************************************)
(* C16: every invocation of handleUpload or handleQuery has issued no      *)
(* request if it failed a precondition and exactly one otherwise, at every *)
(* point of its life: while the request is outstanding, after it           *)
(* succeeded and after it failed.                                          *)
(***************************************************************************)
C16_AtMostOneRequestPerCall ==
    /\ \A i \in 1..Len(uploadCalls) :
          RequestCount(<<"handleUpload", i>>) =
             IF i \in Aborted(uploadCalls) THEN 0 ELSE 1
    /\ \A i \in 1..Len(queryCalls) :
          RequestCount(<<"handleQuery", i>>) =
             IF i \in Aborted(queryCalls) THEN 0 ELSE 1
    /\ BagCardinality(requests) =
          Cardinality((1..Len(uploadCalls)) \ Aborted(uploadCalls))
          + Cardinality((1..Len(queryCalls)) \ Aborted(queryCalls))

\* An aborted query, then a query whose fetch was rejected, after an upload
\* whose fetch was rejected too.
C16_Witness ==
    /\ QuerySettled
    /\ event.type = "fetch-settled"
    /\ event.rejected
    /\ event.call = 2
    /\ 1 \in Aborted(queryCalls)
    /\ \E j \in Done(uploadCalls) : uploadCalls[j].threw
    /\ RequestCount(<<"handleQuery", 2>>) = 1

(***************************************************************************)
(* C17: whenever the loader is visible, at least one invocation of         *)
(* handleQuery is outstanding.                                             *)
(***************************************************************************)
C17_LoaderOnlyWhileOutstanding ==
    loaderDisplay = "block" => Outstanding(queryCalls) # {}

\* A second query was started after the first one settled.
C17_Witness ==
    /\ loaderDisplay = "block"
    /\ Done(queryCalls) # {}
    /\ Outstanding(queryCalls) # {}

\* The uploads that passed the file check, and the id the latest generated.
StartedUploads == (1..Len(uploadCalls)) \ Aborted(uploadCalls)
LatestUpload == CHOOSE i \in StartedUploads : \A j \in StartedUploads : j <= i
SessionIsLatest ==
    IF StartedUploads = {}
    THEN sessionId = Null
    ELSE /\ sessionId # Null
         /\ \E r \in RequestsOf(<<"handleUpload", LatestUpload>>) :
               r.body.session_id = sessionId

(***************************************************************************)
(* C18: sessionId is null while no upload has passed the file check, and   *)
(* afterwards it is the id generated by the most recently started upload   *)
(* that passed the file check, whether that upload is outstanding, has     *)
(* succeeded or has failed; once non-null it never becomes null again.     *)
(***************************************************************************)
C18_SessionIsLatestStartedUpload ==
    /\ []SessionIsLatest
    /\ [][sessionId # Null => sessionId' # Null]_vars

\* The second upload replaced the id of the first and then failed.
C18_Witness ==
    /\ Len(uploadCalls) = 2
    /\ StartedUploads = {1, 2}
    /\ uploadCalls[2].pc = "done"
    /\ uploadCalls[2].threw
    /\ sessionId = NewSessionId(1)
    /\ \E r \in RequestsOf(<<"handleUpload", 1>>) :
          r.body.session_id = NewSessionId(0)

(***************************************************************************)
(* C19: the query section is visible only if at least one upload has       *)
(* settled successfully, and then sessionId is non-null; once visible it   *)
(* is never hidden again.                                                  *)
(***************************************************************************)
C19_QuerySectionAfterSuccessfulUpload ==
    /\ [](queryCardDisplay = "block" =>
             /\ \E j \in Done(uploadCalls) : ~uploadCalls[j].threw
             /\ sessionId # Null)
    /\ [][queryCardDisplay = "block" => queryCardDisplay' = "block"]_vars

\* The section stays visible after a later upload failed.
C19_Witness ==
    /\ queryCardDisplay = "block"
    /\ event.type \in {"fetch-settled", "json-settled"}
    /\ event.handler = "handleUpload"
    /\ uploadCalls[event.call].pc = "done"
    /\ uploadCalls[event.call].threw

UploadAborted == UploadClicked /\ event.call \in Aborted(uploadCalls)
QueryAborted == QueryClicked /\ event.call \in Aborted(queryCalls)

(***************************************************************************)
(* C20: an invocation of handleUpload without a file changes neither       *)
(* sessionId, the query section's visibility, the loader nor the results   *)
(* area; an invocation of handleQuery with an empty question or a null     *)
(* sessionId changes neither sessionId, the upload status, the results     *)
(* card's visibility, the loader nor the results area.                     *)
(***************************************************************************)
C20_FailedPreconditionFrame ==
    [][ /\ UploadAborted' =>
              UNCHANGED << sessionId, queryCardDisplay, loaderDisplay,
                           resultsContent, resultsCardDisplay, requests >>
        /\ QueryAborted' =>
              UNCHANGED << sessionId, uploadStatus, resultsCardDisplay,
                           loaderDisplay, resultsContent, queryCardDisplay,
                           requests >> ]_vars

\* A query without a question is refused while earlier results are shown.
C20_Witness ==
    /\ QueryAborted
    /\ resultsContent # << >>
    /\ resultsCardDisplay = "block"
    /\ sessionId # Null

====
